---- MODULE Spec2Model ----
(***************************************************************************)
(* Model of the flying game of my-app/app/page.tsx (component FlyingGame). *)
(*                                                                         *)
(* State: the three React state cells (gameState, score, highScore) and    *)
(* the four refs (playerRef, pipesRef, bulletsRef, frameCountRef).         *)
(* Operations: the two input callbacks jump and shoot, and one run of the  *)
(* animation-frame callback gameLoop (a tick).                             *)
(*                                                                         *)
(* Numbers.  Horizontal coordinates are whole pixels.  Every vertical      *)
(* quantity (y, velocity, heights) is kept in tenths of a pixel and the    *)
(* rotation in tenths of a degree, so that GRAVITY = 0.4 is the integer 4. *)
(* The rounding error of the IEEE doubles of the program is not modelled.  *)
(*                                                                         *)
(* React.  A callback reads gameState, score and highScore from the        *)
(* closure of the render it was created in, and its setState calls take    *)
(* effect only when it has returned.  The model therefore reads the        *)
(* unprimed cells throughout a callback and applies the queued updates     *)
(* (in order) in the primed ones.  The re-render and the re-registration   *)
(* of the callbacks are taken to finish before the next callback runs.     *)
(* The effect of lines 116-414 runs again whenever one of the three cells   *)
(* changes: it cancels the pending animation frame and requests a new one. *)
(***************************************************************************)
EXTENDS Integers, Sequences, FiniteSets, TLC

\* ---- program constants (page.tsx lines 6-12), vertical ones in tenths ----
GAME_WIDTH == 400
GAME_HEIGHT == 6000
GRAVITY == 4
JUMP_STRENGTH == -80
BULLET_SPEED == 8
PIPE_SPEED == 2
PIPE_SPAWN_RATE == 150

\* ---- bounds of the model ----
\* no tick is taken in a round once its frame counter has reached MaxFrames
MaxFrames == 452
\* shoot is not issued while MaxBullets projectiles are in flight
MaxBullets == 2
\* a finished round is not restarted once the session best exceeds MaxBest
MaxBest == 2
\* in the specification FallSpec no Jump is delivered to a round after this frame
LastJumpFrame == 165

\* frames of a round at which the input adapter delivers Jump while playing
\* (every 15th frame, and frame 324, which lets the player thread the first pipe)
JumpFrames == {f \in 0..(MaxFrames + 1) : f % 15 = 0 \/ f = 324}
\* frames of a round at which the input adapter delivers Shoot while playing
ShootFrames == {0, 150, 200, 300}
\* values Math.random() * (maxHeight - minHeight) + minHeight is drawn from
TopHeights == {500, 2000, 3999}

\* rafPending: a gameLoop callback is scheduled (animationRef holds a live request)
VARIABLES gameState, score, highScore, player, pipes, bullets, frameCount, lastOp,
          rafPending

vars == <<gameState, score, highScore, player, pipes, bullets, frameCount, lastOp,
          rafPending>>

\* ---- helpers ----
Min(a, b) == IF a < b THEN a ELSE b
Max(a, b) == IF a > b THEN a ELSE b

\* the player record written at construction and by resetGame
InitialPlayer == [x |-> 80, y |-> 2500, velocity |-> 0, rotation |-> 0]

\* axis-aligned rectangle overlap
checkCollision(a, b) ==
    /\ a.x < b.x + b.w
    /\ a.x + a.w > b.x
    /\ a.y < b.y + b.h
    /\ a.y + a.h > b.y

playerHitboxWide(pl) == [x |-> pl.x - 30, y |-> pl.y - 150, w |-> 60, h |-> 300]
playerHitbox(pl) == [x |-> pl.x - 15, y |-> pl.y - 150, w |-> 30, h |-> 300]
bulletHitbox(b) == [x |-> b.x - 5, y |-> b.y - 30, w |-> 10, h |-> 60]
topPipe(p) == [x |-> p.x, y |-> 0, w |-> 50, h |-> p.topHeight]
bottomPipe(p) == [x |-> p.x, y |-> p.topHeight + p.gap, w |-> 50, h |-> GAME_HEIGHT]

\* the player-pipe test of the pipe pass, on a pipe already moved
PlayerHitsPipe(pl, p) ==
    checkCollision(playerHitbox(pl), topPipe(p)) \/ checkCollision(playerHitbox(pl), bottomPipe(p))

\* the bullet-pipe test of the bullet pass, on a bullet already moved
BulletHitsPipe(b, p) ==
    checkCollision(bulletHitbox(b), topPipe(p)) \/ checkCollision(bulletHitbox(b), bottomPipe(p))

\* ---- resetGame ----
ResetGameKeepsFrame ==
    /\ player' = InitialPlayer
    /\ pipes' = <<>>
    /\ bullets' = <<>>
    /\ frameCount' = frameCount
    /\ score' = 0
ResetGame ==
    /\ player' = InitialPlayer
    /\ pipes' = <<>>
    /\ bullets' = <<>>
    /\ frameCount' = 0
    /\ score' = 0

\* ---- jump ----
\* playerRef.current.velocity = JUMP_STRENGTH
ImpulseAdditive(pl) == [pl EXCEPT !.velocity = pl.velocity + JUMP_STRENGTH]
Impulse(pl) == [pl EXCEPT !.velocity = JUMP_STRENGTH]

\* the phase jump leaves a finished round in
RestartPhasePlaying == "playing"
RestartPhase == "start"

\* the game-loop effect after a callback: run again (cancel, then request a
\* frame, line 407) when a cell it depends on has changed
EffectAfter(changed, pending) == IF changed THEN TRUE ELSE pending

Jump ==
    /\ gameState = "playing" => frameCount \in JumpFrames
    /\ gameState = "gameOver" => highScore <= MaxBest
    /\ lastOp' = "jump"
    /\ IF gameState = "start"
       THEN /\ gameState' = "playing"
            /\ player' = Impulse(player)
            /\ UNCHANGED <<score, highScore, pipes, bullets, frameCount>>
       ELSE IF gameState = "playing"
       THEN /\ player' = Impulse(player)
            /\ UNCHANGED <<gameState, score, highScore, pipes, bullets, frameCount>>
       ELSE /\ ResetGame
            /\ gameState' = RestartPhase
            /\ UNCHANGED highScore
    /\ rafPending' = EffectAfter(gameState' # gameState \/ score' # score, rafPending)

\* ---- shoot ----
\* the record pushed on bulletsRef.current
NewBulletAtPlayer(pl) == [x |-> pl.x, y |-> pl.y, active |-> TRUE]
NewBullet(pl) == [x |-> pl.x + 20, y |-> pl.y + 100, active |-> TRUE]

Shoot ==
    /\ gameState = "playing" => (frameCount \in ShootFrames /\ Len(bullets) < MaxBullets)
    /\ lastOp' = "shoot"
    /\ IF gameState = "playing"
       THEN bullets' = Append(bullets, NewBullet(player))
       ELSE UNCHANGED bullets
    /\ UNCHANGED <<gameState, score, highScore, player, pipes, frameCount, rafPending>>

\* ---- gameLoop: the physics step ----
StepPlayerPositionFirst(pl) ==
    LET v == pl.velocity + GRAVITY
    IN  [pl EXCEPT !.velocity = v,
                   !.y = pl.y + pl.velocity,
                   !.rotation = Min(Max(v * 3, -300), 450)]
StepPlayerUnclamped(pl) ==
    LET v == pl.velocity + GRAVITY
    IN  [pl EXCEPT !.velocity = v,
                   !.y = pl.y + v,
                   !.rotation = v * 3]
StepPlayer(pl) ==
    LET v == pl.velocity + GRAVITY
    IN  [pl EXCEPT !.velocity = v,
                   !.y = pl.y + v,
                   !.rotation = Min(Max(v * 3, -300), 450)]

\* floor/ceiling test on the player after the physics step
OutOfBoundsCeilingOnly(pl) == pl.y < 0
OutOfBoundsAtEdge(pl) == pl.y > GAME_HEIGHT \/ pl.y < 0
OutOfBounds(pl) == pl.y > GAME_HEIGHT - 400 \/ pl.y < 0

\* ---- gameLoop: the spawn step ----
NewPipe(topHeight) == [x |-> GAME_WIDTH, topHeight |-> topHeight, gap |-> 1200, passed |-> FALSE]

SpawnPipesOnFirstFrame(ps, fc, topHeight) ==
    IF fc % PIPE_SPAWN_RATE = 1 THEN Append(ps, NewPipe(topHeight)) ELSE ps
SpawnPipes(ps, fc, topHeight) ==
    IF fc % PIPE_SPAWN_RATE = 0 THEN Append(ps, NewPipe(topHeight)) ELSE ps

\* ---- gameLoop: the pipe pass (filter callback of lines 164-186) ----
MovePipeByOne(p) == [p EXCEPT !.x = p.x - 1]
MovePipe(p) == [p EXCEPT !.x = p.x - PIPE_SPEED]

\* the score-counting test on a pipe already moved
PassesIgnoringFlag(pl, p) == p.x + 50 < pl.x
Passes(pl, p) == ~p.passed /\ p.x + 50 < pl.x

MarkPipe(pl, p) == IF Passes(pl, p) THEN [p EXCEPT !.passed = TRUE] ELSE p

\* result of the pass: the pipes kept, whether a player hit was seen, the
\* number of setScore(s => s + 1) calls queued
UpdatePipes(ps, pl) ==
    LET moved == [i \in 1..Len(ps) |-> MovePipe(ps[i])]
        marked == [i \in 1..Len(ps) |-> MarkPipe(pl, moved[i])]
    IN  [pipes |-> SelectSeq(marked, LAMBDA p : p.x > -60),
         hit |-> \E i \in 1..Len(ps) : PlayerHitsPipe(pl, moved[i]),
         passes |-> Cardinality({i \in 1..Len(ps) : Passes(pl, moved[i])})]

\* ---- gameLoop: the bullet pass (filter callback of lines 189-208) ----
MoveBullet(b) == [b EXCEPT !.x = b.x + BULLET_SPEED]

\* the inner filter: every pipe the bullet overlaps is removed
RemoveAllOnHit(b, ps) ==
    IF \E i \in 1..Len(ps) : BulletHitsPipe(b, ps[i]) THEN <<>> ELSE ps
RemoveHitPipes(b, ps) == SelectSeq(ps, LAMBDA p : ~BulletHitsPipe(b, p))

\* the outer filter's verdict on a moved bullet
KeepBulletPastEdge(b, hit) == b.x < GAME_WIDTH + BULLET_SPEED /\ ~hit
KeepBulletIgnoringHit(b, hit) == b.x < GAME_WIDTH
KeepBullet(b, hit) == b.x < GAME_WIDTH /\ ~hit

UpdateBulletsStalePipes(bs, ps, kept, hits) ==
    LET B == [k \in 1..Len(bs) |-> MoveBullet(bs[k])]
        hit(b) == \E i \in 1..Len(ps) : BulletHitsPipe(b, ps[i])
    IN  [bullets |-> kept \o SelectSeq(B, LAMBDA b : KeepBullet(b, hit(b))),
         pipes |-> SelectSeq(ps, LAMBDA p : \A k \in 1..Len(B) : ~BulletHitsPipe(B[k], p)),
         hits |-> hits + Cardinality({k \in 1..Len(B) : hit(B[k])})]
\* bs: bullets still to visit; ps: pipesRef.current; kept: bullets kept so
\* far; hits: number of setScore(s => s + 2) calls queued so far
RECURSIVE UpdateBullets(_, _, _, _)
UpdateBullets(bs, ps, kept, hits) ==
    IF bs = <<>>
    THEN [bullets |-> kept, pipes |-> ps, hits |-> hits]
    ELSE LET b == MoveBullet(Head(bs))
             ps2 == RemoveHitPipes(b, ps)
             n == Len(ps) - Len(ps2)
         IN  UpdateBullets(Tail(bs), ps2,
                           IF KeepBullet(b, n > 0) THEN Append(kept, b) ELSE kept,
                           hits + n)

\* ---- gameLoop: the queued React updates ----
\* setHighScore(score) is guarded by the closure's score and highScore
CommitHighScoreUnguarded(dead, sc, hs) == IF dead THEN sc ELSE hs
CommitHighScore(dead, sc, hs) == IF dead /\ sc > hs THEN sc ELSE hs

\* the setScore updaters of the tick, applied in order to the closure's score
CommitScore(sc, passes, hits) == sc + passes + 2 * hits

\* ---- gameLoop: one tick ----
PlayingTick(topHeight) ==
    LET pl == StepPlayer(player)
        fc == frameCount + 1
        spawned == SpawnPipes(pipes, fc, topHeight)
        pp == UpdatePipes(spawned, pl)
        bp == UpdateBullets(bullets, pp.pipes, <<>>, 0)
        dead == OutOfBounds(pl) \/ pp.hit
    IN  /\ player' = pl
        /\ frameCount' = fc
        /\ pipes' = bp.pipes
        /\ bullets' = bp.bullets
        /\ gameState' = IF dead THEN "gameOver" ELSE "playing"
        /\ highScore' = CommitHighScore(dead, score, highScore)
        /\ score' = CommitScore(score, pp.passes, bp.hits)
        /\ rafPending' = TRUE

\* the not-playing branch ends with requestAnimationFrame(gameLoop) (line 127)
IdleTickStops == FALSE
IdleTickRequestsFrame == TRUE

Tick ==
    /\ rafPending
    /\ lastOp' = "tick"
    /\ IF gameState # "playing"
       THEN /\ UNCHANGED <<gameState, score, highScore, player, pipes, bullets, frameCount>>
            /\ rafPending' = IdleTickRequestsFrame
       ELSE /\ frameCount < MaxFrames
            /\ \E topHeight \in TopHeights : PlayingTick(topHeight)

\* ---- the system ----
Init ==
    /\ gameState = "start"
    /\ score = 0
    /\ highScore = 0
    /\ player = InitialPlayer
    /\ pipes = <<>>
    /\ bullets = <<>>
    /\ frameCount = 0
    /\ lastOp = "init"
    /\ rafPending = TRUE

Next == Jump \/ Shoot \/ Tick

Spec == Init /\ [][Next]_vars

\* ---- the system when the player stops jumping ----
\* Jump, not delivered to a round after frame LastJumpFrame
JumpFall ==
    /\ gameState = "playing" => frameCount <= LastJumpFrame
    /\ Jump

NextFall == JumpFall \/ Shoot \/ Tick

\* the animation-frame callback keeps running while it is scheduled
FallSpec == Init /\ [][NextFall]_vars /\ WF_vars(Tick)

TypeOK ==
    /\ gameState \in {"start", "playing", "gameOver"}
    /\ score \in Nat
    /\ highScore \in Nat
    /\ frameCount \in 0..MaxFrames
    /\ Len(bullets) <= MaxBullets
    /\ lastOp \in {"init", "jump", "shoot", "tick"}
    /\ rafPending \in BOOLEAN

\* ======================= properties =======================

\* a tick taken while playing sees the player overlap a pipe it has moved
\* (the pipe spawned in the tick sits at x = 398 and cannot be overlapped)
PipeHitDetected ==
    \E i \in 1..Len(pipes) : PlayerHitsPipe(StepPlayer(player), MovePipe(pipes[i]))

\* a tick taken while playing leaves the player below the floor or above the top
BoundaryHitDetected ==
    LET y == player.y + player.velocity + 4 IN y > 5600 \/ y < 0

\* C1: the phase starts as Start, and the only phase changes are
\* Start->Playing on Jump, Playing->GameOver on a tick that detects a boundary
\* or player-pipe collision, and GameOver->Start on Jump; Shoot and ticks
\* outside Playing never change the phase.
C1_PhaseStep ==
    /\ gameState' # gameState =>
          \/ gameState = "start" /\ gameState' = "playing" /\ lastOp' = "jump"
          \/ /\ gameState = "playing" /\ gameState' = "gameOver" /\ lastOp' = "tick"
             /\ (BoundaryHitDetected \/ PipeHitDetected)
          \/ gameState = "gameOver" /\ gameState' = "start" /\ lastOp' = "jump"
    /\ lastOp' = "shoot" => gameState' = gameState
    /\ (lastOp' = "tick" /\ gameState # "playing") => gameState' = gameState
C1_PhaseTransitions == (gameState = "start") /\ [][C1_PhaseStep]_vars

\* C1 witness: a restart has happened after a round that scored, so all three
\* transitions have been taken
C1_Witness == gameState = "start" /\ lastOp = "jump" /\ highScore > 0

\* C2 (as claimed): when a tick ends the round, session-best becomes the max
\* of its previous value and the score including that tick's awards
C2_BestIsMaxFinalScore ==
    [][(gameState = "playing" /\ gameState' = "gameOver")
          => highScore' = Max(highScore, score')]_vars

\* C3: no step decreases session-best
C3_BestMonotone == [][highScore' >= highScore]_vars

\* C3 witness: a later round has ended below the session-best of an earlier one
C3_Witness == gameState = "gameOver" /\ lastOp = "tick" /\ highScore > score

\* C4: Jump in GameOver gives phase Start, score 0, frame counter 0, no pipes,
\* no bullets, the default player, and the same session-best
C4_RestartResets ==
    [][(gameState = "gameOver" /\ lastOp' = "jump") =>
          /\ gameState' = "start"
          /\ score' = 0
          /\ frameCount' = 0
          /\ pipes' = <<>>
          /\ bullets' = <<>>
          /\ player' = [x |-> 80, y |-> 2500, velocity |-> 0, rotation |-> 0]
          /\ highScore' = highScore]_vars

\* C4 witness: the state right after a restart of a round that had scored
C4_Witness == lastOp = "jump" /\ gameState = "start" /\ frameCount = 0 /\ highScore >= 2

\* C5 (as claimed): after a playing tick y is the old y plus the old velocity,
\* and the velocity is the old velocity plus 0.4
C5_PositionFromOldVelocity ==
    [][(gameState = "playing" /\ lastOp' = "tick") =>
          /\ player'.y = player.y + player.velocity
          /\ player'.velocity = player.velocity + 4]_vars

\* C5 (amended): after a playing tick the velocity is the old velocity plus
\* 0.4 and y is the old y plus the NEW velocity
C5_PositionFromNewVelocity ==
    [][(gameState = "playing" /\ lastOp' = "tick") =>
          /\ player'.velocity = player.velocity + 4
          /\ player'.y = player.y + player'.velocity]_vars

\* C5 witness: a playing tick has run on a falling player that had jumped
C5_Witness ==
    lastOp = "tick" /\ gameState = "playing" /\ frameCount > 20 /\ player.velocity > 0

\* the pipes a playing tick visits before the first one the player overlaps
PipesBeforeHit ==
    {i \in 1..Len(pipes) :
        \A j \in 1..i : ~PlayerHitsPipe(StepPlayer(player), MovePipe(pipes[j]))}

\* C6 (as claimed): in a tick that detects a player-pipe overlap nothing
\* after the detection runs: no bullet is advanced or removed, and the score
\* grows only by the passes counted before the detection
C6_HitShortCircuits ==
    [][(gameState = "playing" /\ lastOp' = "tick" /\ PipeHitDetected) =>
          /\ bullets' = bullets
          /\ score' = score + Cardinality({i \in PipesBeforeHit :
                                 ~pipes[i].passed /\ pipes[i].x - 2 + 50 < 80})]_vars

\* C7: Shoot outside Playing changes nothing; Shoot in Playing appends one
\* projectile at (player.x + 20, player.y + 10) and changes nothing else
C7_ShootEffect ==
    [][lastOp' = "shoot" =>
          /\ UNCHANGED <<gameState, player, pipes, frameCount, score, highScore>>
          /\ IF gameState = "playing"
             THEN bullets' = bullets \o <<[x |-> player.x + 20, y |-> player.y + 100,
                                           active |-> TRUE]>>
             ELSE bullets' = bullets]_vars

\* C7 witness: a second shot has just been appended behind one in flight
C7_Witness ==
    /\ lastOp = "shoot" /\ gameState = "playing" /\ Len(bullets) = 2
    /\ bullets[2].x = 100 /\ bullets[2].y = player.y + 100

\* C8: Jump in Start or Playing sets the velocity to -8 and the phase to
\* Playing and changes nothing else
C8_JumpOverrides ==
    [][(lastOp' = "jump" /\ gameState \in {"start", "playing"}) =>
          /\ player'.velocity = -80
          /\ player'.x = player.x /\ player'.y = player.y
          /\ player'.rotation = player.rotation
          /\ gameState' = "playing"
          /\ UNCHANGED <<pipes, bullets, frameCount, score, highScore>>]_vars

\* C8 witness: a jump has just been taken in mid-flight, where the rotation
\* still shows the positive velocity it replaced
C8_Witness ==
    /\ lastOp = "jump" /\ gameState = "playing" /\ frameCount > 0
    /\ player.velocity = -80 /\ player.rotation > 0

\* the pipes a playing tick counts as newly passed
NewlyPassed ==
    {i \in 1..Len(pipes) : ~pipes[i].passed /\ pipes[i].x - 2 + 50 < 80}

\* C9: a pipe is marked passed exactly from the first tick that leaves its
\* right edge (x + 50) strictly left of the player's x (80): the flag is set
\* in that tick, stays set while the pipe lives, and the tick adds exactly 1
\* to the score for each pipe it marks (next to 2 for each pipe destroyed)
C9_PassStep ==
    /\ \A j \in 1..Len(pipes') : pipes'[j].passed <=> pipes'[j].x + 50 < 80
    /\ (lastOp' # "tick" \/ gameState # "playing") => (pipes' = pipes \/ pipes' = <<>>)
    /\ (lastOp' = "tick" /\ gameState = "playing") =>
          LET spawn == IF (frameCount + 1) % 150 = 0 THEN 1 ELSE 0
              gone == {i \in 1..Len(pipes) : pipes[i].x - 2 <= -60}
              destroyed == Len(pipes) + spawn - Cardinality(gone) - Len(pipes')
          IN  /\ \A i \in 1..Len(pipes) : \A j \in 1..Len(pipes') :
                    pipes'[j].x = pipes[i].x - 2 =>
                       /\ pipes[i].passed => pipes'[j].passed
                       /\ pipes'[j].passed <=> (pipes[i].passed \/ i \in NewlyPassed)
              /\ \A i \in NewlyPassed :
                    /\ pipes[i].x + 50 >= 80
                    /\ \E j \in 1..Len(pipes') :
                          pipes'[j].x = pipes[i].x - 2 /\ pipes'[j].passed
              /\ score' = score + Cardinality(NewlyPassed) + 2 * destroyed
C9_PassedOnce == [][C9_PassStep]_vars

\* C9 witness: the tick that moved the first pipe to x = 28 has marked it
\* and scored 1 for it
C9_Witness ==
    /\ lastOp = "tick" /\ Len(pipes) >= 1
    /\ pipes[1].x = 28 /\ pipes[1].passed /\ score = 1

\* the subsequence of s at the indices in K
Pick(s, K) ==
    LET idx == SelectSeq([i \in 1..Len(s) |-> i], LAMBDA i : i \in K)
    IN  [j \in 1..Len(idx) |-> s[idx[j]]]

\* the bullets of the state, advanced by one tick
AdvancedBullets == [k \in 1..Len(bullets) |-> [bullets[k] EXCEPT !.x = @ + 8]]

\* the pipes the bullet pass of a playing tick starts from
PipesAfterPipePass(topHeight) ==
    UpdatePipes(SpawnPipes(pipes, frameCount + 1, topHeight), StepPlayer(player)).pipes

\* C10 for the tick that spawns with topHeight (if it spawns): a pipe is live
\* for bullet k while no earlier bullet overlaps it; a bullet overlapping a
\* live pipe is removed together with that pipe and adds 2 to the score; a
\* bullet overlapping no live pipe stays unless its x has reached 400, and
\* adds nothing
C10_Step(topHeight) ==
    LET M == PipesAfterPipePass(topHeight)
        B == AdvancedBullets
        taken(k) == {i \in 1..Len(M) : \E k2 \in 1..(k - 1) : BulletHitsPipe(B[k2], M[i])}
        hits(k) == \E i \in (1..Len(M)) \ taken(k) : BulletHitsPipe(B[k], M[i])
        destroyed == {i \in 1..Len(M) : \E k \in 1..Len(B) : BulletHitsPipe(B[k], M[i])}
        consumed == {k \in 1..Len(B) : hits(k)}
    IN  /\ pipes' = Pick(M, (1..Len(M)) \ destroyed)
        /\ bullets' = Pick(B, {k \in 1..Len(B) : ~hits(k) /\ B[k].x < 400})
        /\ score' = score + Cardinality(NewlyPassed) + 2 * Cardinality(consumed)

C10_BulletHits ==
    [][(gameState = "playing" /\ lastOp' = "tick") =>
          \E topHeight \in TopHeights : C10_Step(topHeight)]_vars

\* C10 witness: of two bullets in flight one has destroyed the only pipe for
\* 2 points and is gone, the other flies on
C10_Witness ==
    /\ lastOp = "tick" /\ score = 2 /\ pipes = <<>> /\ Len(bullets) = 1
    /\ frameCount \in 151..199

\* C11: a tick outside Playing changes neither the player, the pipes, the
\* bullets, the frame counter, the score, the session best nor the phase, and
\* leaves the next gameLoop callback scheduled
C11_IdleTick ==
    [][(lastOp' = "tick" /\ gameState # "playing") =>
          /\ UNCHANGED <<player, pipes, bullets, frameCount, score, highScore, gameState>>
          /\ rafPending']_vars

\* C11 witness: a tick has run in Start, after the restart of a round that
\* had scored
C11_Witness ==
    lastOp = "tick" /\ gameState = "start" /\ highScore >= 1 /\ rafPending

\* C12: a playing tick that leaves y above 560 or below 0 ends in GameOver;
\* in GameOver nothing but Jump changes the player's y or velocity or the
\* phase; and a playing tick ends in GameOver only if y is out of [0, 560] or
\* the player's hitbox overlaps a segment of a pipe
C12_Step ==
    /\ (gameState = "playing" /\ lastOp' = "tick" /\ (player'.y > 5600 \/ player'.y < 0))
          => gameState' = "gameOver"
    /\ (gameState = "gameOver" /\ lastOp' # "jump")
          => /\ player'.y = player.y
             /\ player'.velocity = player.velocity
             /\ gameState' = "gameOver"
    /\ (gameState = "playing" /\ gameState' = "gameOver")
          => \/ player'.y > 5600
             \/ player'.y < 0
             \/ \E i \in 1..Len(pipes) : PlayerHitsPipe(player', MovePipe(pipes[i]))
C12_BoundaryEndsRound == [][C12_Step]_vars

\* C12 witness: the player lies below the floor in GameOver, untouched by a
\* Shoot issued after the round ended
C12_Witness == gameState = "gameOver" /\ lastOp = "shoot" /\ player.y > 5600

\* C13: the rotation is 0 initially and after a restart, after every playing
\* tick it is 3 * velocity clamped to [-30, 45] degrees for the velocity the
\* tick leaves, and so it lies in [-30, 45] in every state
C13_Step ==
    /\ player'.rotation >= -300 /\ player'.rotation <= 450
    /\ (gameState = "playing" /\ lastOp' = "tick") =>
          player'.rotation = (IF 3 * player'.velocity > 450 THEN 450
                              ELSE IF 3 * player'.velocity < -300 THEN -300
                              ELSE 3 * player'.velocity)
    /\ (gameState = "gameOver" /\ lastOp' = "jump") => player'.rotation = 0
C13_RotationClamped == (player.rotation = 0) /\ [][C13_Step]_vars

\* C13 witness: a tick has left a velocity above 15, whose triple the clamp
\* has cut to 45 degrees
C13_Witness == lastOp = "tick" /\ player.velocity > 150 /\ player.rotation = 450

\* C14: a round in which Jump is no longer issued ends: Playing leads to
\* GameOver, after at most 74 ticks without a Jump (the velocity, -8 + 0.4 per
\* tick since the last Jump, never exceeds 21.6 while playing); and from
\* GameOver one Jump gives the freshly reset Start state and the next Jump
\* gives Playing with that reset world and velocity -8
C14_JumpStep ==
    /\ (gameState = "gameOver" /\ lastOp' = "jump") =>
          /\ gameState' = "start"
          /\ player' = [x |-> 80, y |-> 2500, velocity |-> 0, rotation |-> 0]
          /\ pipes' = <<>> /\ bullets' = <<>> /\ frameCount' = 0 /\ score' = 0
    /\ (gameState = "start" /\ lastOp' = "jump") =>
          /\ gameState' = "playing"
          /\ player' = [x |-> 80, y |-> 2500, velocity |-> -80, rotation |-> 0]
          /\ pipes' = <<>> /\ bullets' = <<>> /\ frameCount' = 0 /\ score' = 0
C14_Recoverable ==
    /\ (gameState = "playing") ~> (gameState = "gameOver")
    /\ [](gameState = "playing" => player.velocity <= -80 + 4 * 74)
    /\ [][C14_JumpStep]_vars

\* C14 witness: Playing has been entered again by the two Jumps that follow
\* a round that scored
C14_Witness ==
    /\ gameState = "playing" /\ lastOp = "jump" /\ frameCount = 0 /\ highScore >= 1
    /\ player.y = 2500 /\ player.velocity = -80

\* C15: in a playing tick every bullet overlaps at most one of the pipes the
\* bullet pass starts from, no more pipes are destroyed than bullets are
\* used up by a hit, each destroyed pipe earns 2 exactly once, and a pipe no
\* bullet overlaps stays in the collection
C15_Step(topHeight) ==
    LET M == PipesAfterPipePass(topHeight)
        B == AdvancedBullets
        overlapped(k) == {i \in 1..Len(M) : BulletHitsPipe(B[k], M[i])}
        untouched == {i \in 1..Len(M) : \A k \in 1..Len(B) : ~BulletHitsPipe(B[k], M[i])}
        destroyed == Len(M) - Len(pipes')
        usedUp == Cardinality({k \in 1..Len(B) : B[k].x < 400}) - Len(bullets')
    IN  /\ \A k \in 1..Len(B) : Cardinality(overlapped(k)) <= 1
        /\ destroyed <= usedUp
        /\ score' = score + Cardinality(NewlyPassed) + 2 * destroyed
        /\ \A i \in untouched : \E j \in 1..Len(pipes') : pipes'[j] = M[i]

C15_OnePipePerBullet ==
    [][(gameState = "playing" /\ lastOp' = "tick") =>
          \E topHeight \in TopHeights : C15_Step(topHeight)]_vars

\* C15 witness: with two pipes on the field a bullet has destroyed the second
\* one for 2 points and the first one is still there
C15_Witness ==
    /\ lastOp = "tick" /\ frameCount \in 301..379 /\ score = 2
    /\ Len(pipes) = 1 /\ pipes[1].x < 100 /\ ~pipes[1].passed

\* C16: in the state a tick leaves, every pipe has x > -60, every bullet has
\* x < 400, and no bullet's hitbox overlaps a segment of any pipe
C16_NoStaleEntities ==
    lastOp = "tick" =>
       /\ \A i \in 1..Len(pipes) : pipes[i].x > -60
       /\ \A k \in 1..Len(bullets) : bullets[k].x < 400
       /\ \A k \in 1..Len(bullets) : \A i \in 1..Len(pipes) :
             ~BulletHitsPipe(bullets[k], pipes[i])

\* C16 witness: the tick of frame 380 has dropped the first pipe, which had
\* been passed for 1 point, at x = -60 and kept the second one
C16_Witness ==
    /\ lastOp = "tick" /\ gameState = "playing" /\ frameCount = 380 /\ score = 1
    /\ Len(pipes) = 1 /\ pipes[1].x = 238

\* C17: a playing tick adds exactly 1 to the frame counter and creates a pipe
\* exactly when the new counter is a multiple of 150; the pipe is appended
\* last with x = 400, gap 120, passed false and 50 <= topHeight < 400 (the
\* same tick moves it to x = 398); no other step creates a pipe, and so a
\* round has no pipe before its 150th tick
C17_Step ==
    /\ (gameState = "playing" /\ lastOp' = "tick") =>
          /\ frameCount' = frameCount + 1
          /\ \E topHeight \in TopHeights :
                LET created == IF frameCount' % 150 = 0
                               THEN <<[x |-> 400, topHeight |-> topHeight,
                                       gap |-> 1200, passed |-> FALSE]>>
                               ELSE <<>>
                IN  /\ topHeight >= 500 /\ topHeight < 4000
                    /\ pipes' = UpdateBullets(bullets,
                                   UpdatePipes(pipes \o created, player').pipes,
                                   <<>>, 0).pipes
          /\ frameCount' % 150 = 0 =>
                \/ score' >= score + 2
                \/ /\ Len(pipes') = Cardinality({i \in 1..Len(pipes) : pipes[i].x - 2 > -60}) + 1
                   /\ pipes'[Len(pipes')].x = 398
                   /\ ~pipes'[Len(pipes')].passed
          /\ frameCount' % 150 # 0 => Len(pipes') <= Len(pipes)
    /\ (gameState # "playing" \/ lastOp' # "tick") =>
          /\ frameCount' = frameCount \/ frameCount' = 0
          /\ pipes' = pipes \/ pipes' = <<>>
    /\ frameCount' < 150 => pipes' = <<>>
    /\ \A j \in 1..Len(pipes') :
          /\ pipes'[j].gap = 1200
          /\ pipes'[j].topHeight >= 500 /\ pipes'[j].topHeight < 4000
          /\ pipes'[j].x = 398 => (frameCount' % 150 = 0 /\ j = Len(pipes'))
C17_SpawnSchedule == [][C17_Step]_vars

\* C17 witness: the 150th tick of a round that follows a restart has created
\* the round's first pipe
C17_Witness ==
    /\ lastOp = "tick" /\ frameCount = 150 /\ highScore >= 1
    /\ Len(pipes) = 1 /\ pipes[1].x = 398 /\ ~pipes[1].passed

\* C18: a pipe earns at most one award.  In a playing tick the score grows by
\* 1 for each pipe newly marked passed and by 2 for each pipe (not each
\* bullet) destroyed; a pipe marked passed, in this tick or before, is never
\* destroyed; a pipe that scrolls off has been passed and earns nothing in
\* that tick; no other step adds to the score.  So the score never exceeds 2
\* for each pipe of the round that is gone plus 1 for each live passed pipe.
C18_Step ==
    /\ (gameState = "playing" /\ lastOp' = "tick") =>
          LET stays(i) == \E j \in 1..Len(pipes') : pipes'[j].x = pipes[i].x - 2
              offScreen(i) == pipes[i].x - 2 <= -60
              destroyed == {i \in 1..Len(pipes) : ~stays(i) /\ ~offScreen(i)}
              spawnDestroyed == IF /\ (frameCount + 1) % 150 = 0
                                   /\ \A j \in 1..Len(pipes') : pipes'[j].x # 398
                                THEN 1 ELSE 0
          IN  /\ score' = score + Cardinality(NewlyPassed)
                                + 2 * (Cardinality(destroyed) + spawnDestroyed)
              /\ \A i \in 1..Len(pipes) :
                    /\ (pipes[i].passed \/ i \in NewlyPassed) => i \notin destroyed
                    /\ offScreen(i) => (pipes[i].passed /\ i \notin NewlyPassed)
              /\ Cardinality(destroyed) + spawnDestroyed
                    <= Cardinality({k \in 1..Len(bullets) : bullets[k].x < 400})
                          - Len(bullets')
    /\ (gameState # "playing" \/ lastOp' # "tick") => (score' = score \/ score' = 0)
C18_NoDoubleCount ==
    /\ [](score <= 2 * ((frameCount \div 150) - Len(pipes))
                      + Cardinality({i \in 1..Len(pipes) : pipes[i].passed}))
    /\ [][C18_Step]_vars

\* C18 witness: the first pipe was passed for 1 and has scrolled off for
\* nothing, the second was destroyed for 2
C18_Witness ==
    /\ lastOp = "tick" /\ gameState = "playing" /\ frameCount \in 380..449
    /\ pipes = <<>> /\ score = 3

\* C19 (as claimed): in no playing tick does the player's hitbox overlap a
\* segment of a pipe that was marked passed in an earlier tick
C19_PassedNeverCollides ==
    [][(gameState = "playing" /\ lastOp' = "tick") =>
          \A i \in 1..Len(pipes) :
             pipes[i].passed =>
                ~PlayerHitsPipe(StepPlayer(player), MovePipe(pipes[i]))]_vars

\* C19 (amended): a pipe is marked passed at x = 28; in a later tick the
\* player's hitbox (x 65..95) can overlap it only while the tick leaves its x
\* in 16..26 (right edge x + 50 still right of 65), that is in the 6 ticks
\* after the marking, and such an overlap ends the round; from x <= 14 on no
\* tick detects an overlap with it
C19_Step ==
    (gameState = "playing" /\ lastOp' = "tick") =>
       \A i \in 1..Len(pipes) :
          pipes[i].passed =>
             /\ pipes[i].x <= 28
             /\ PlayerHitsPipe(StepPlayer(player), MovePipe(pipes[i])) =>
                   /\ pipes[i].x - 2 >= 16 /\ pipes[i].x - 2 <= 26
                   /\ gameState' = "gameOver"
             /\ pipes[i].x - 2 <= 14 =>
                   ~checkCollision([x |-> player'.x - 15, y |-> player'.y - 150,
                                    w |-> 30, h |-> 300],
                                   [x |-> pipes[i].x - 2, y |-> 0, w |-> 50,
                                    h |-> GAME_HEIGHT])
C19_PassedCollidesBriefly == [][C19_Step]_vars

\* C19 witness: the round goes on after a tick in which the player was level
\* with a segment of a passed pipe that had moved to x <= 14
C19_Witness ==
    /\ lastOp = "tick" /\ gameState = "playing"
    /\ \E i \in 1..Len(pipes) :
          /\ pipes[i].passed /\ pipes[i].x <= 14
          /\ \/ player.y - 150 < pipes[i].topHeight
             \/ player.y + 150 > pipes[i].topHeight + pipes[i].gap

\* C20: in every state the pipes are in strictly increasing x order, two
\* live pipes are exactly 300 apart, every x is even and in (-60, 400] (a
\* pipe spawned k * 150 frames into the round is at 400 - 2 per tick since),
\* and at most 2 pipes are live
C20_Spacing ==
    /\ Len(pipes) <= 2
    /\ \A i \in 1..Len(pipes) :
          /\ pipes[i].x % 2 = 0
          /\ pipes[i].x > -60 /\ pipes[i].x <= 400
          /\ (400 - pipes[i].x) % 300 = (2 * (frameCount + 1)) % 300
    /\ \A i \in 1..Len(pipes) : \A j \in 1..Len(pipes) :
          i < j => pipes[j].x = pipes[i].x + 300 * (j - i)

\* C20 witness: the third pipe of a round has just been created 300 behind
\* the second, after the first has scrolled off
C20_Witness ==
    /\ lastOp = "tick" /\ frameCount = 450 /\ Len(pipes) = 2
    /\ pipes[1].x = 98 /\ pipes[2].x = 398

====
